---- MODULE Spec2Model ----
(***************************************************************************)
(* State-machine model of the chprog protocol engine                       *)
(* (chprog-lib/src/protocol.rs, sequence.rs, definitions.rs).              *)
(*                                                                         *)
(* Bytes are integers 0..255.  Rust slices are 0-based, TLA+ sequences are *)
(* 1-based: At(s, i) reads the 0-based index i, so that the indices in the *)
(* definitions below are the indices of the source.  A Rust panic (index   *)
(* or slice out of range) is the outcome "Panic": the process stops there. *)
(***************************************************************************)
EXTENDS Integers, Sequences, FiniteSets, TLC

\* -------------------------------------------------------------------------
\* Bytes
\* -------------------------------------------------------------------------

Byte == 0..255

At(s, i) == s[i + 1]

\* s[from..to) with 0-based bounds, like a Rust range
Slice(s, from, to) == [k \in 1..(to - from) |-> s[from + k]]

Zeros(n) == [k \in 1..n |-> 0]

\* u8::overflowing_add(..).0
overflowing_add(a, b) == (a + b) % 256

\* the sum of s[lo..hi] with every addition an overflowing_add; the additions
\* are grouped in halves (addition mod 256 is associative) so that the
\* evaluation stays shallow for a 256-byte frame
RECURSIVE sum8_range(_, _, _)
sum8_range(s, lo, hi) ==
    IF lo > hi THEN 0
    ELSE IF lo = hi THEN s[lo] % 256
    ELSE LET mid == (lo + hi) \div 2
         IN overflowing_add(sum8_range(s, lo, mid), sum8_range(s, mid + 1, hi))

\* the checksum loops of request_send and chip_detect
checksum8(s) == sum8_range(s, 1, Len(s))

RECURSIVE xor8(_, _)
xor8(a, b) ==
    IF a = 0 THEN b
    ELSE IF b = 0 THEN a
    ELSE ((a + b) % 2) + 2 * xor8(a \div 2, b \div 2)

\* -------------------------------------------------------------------------
\* Command Template Registry (sequence.rs) and Device Profile Registry
\* (definitions.rs)
\* -------------------------------------------------------------------------

Bootloader == {"Unknown", "V1", "V2"}

SEQUENCES ==
    [ V1 |->
        [ chip_detect     |-> << 162, 19, 85, 83, 66, 32, 68, 66, 71, 32, 67, 72, 53,
                                 53, 57, 32, 38, 32, 73, 83, 80, 0 >>,
          bootloader_exit |-> << 165, 2, 1, 0 >>,
          flash_erase     |-> << 166, 4, 0, 0, 0, 0 >>,
          mode_write      |-> << 168 >>,
          mode_verify     |-> << 167 >>,
          config_read     |-> << 187, 0 >> ],
      V2 |->
        [ chip_detect     |-> << 161, 18, 0, 89, 17, 77, 67, 85, 32, 73, 83, 80, 32,
                                 38, 32, 87, 67, 72, 46, 67, 78 >>,
          bootloader_exit |-> << 162, 1, 0, 1 >>,
          flash_erase     |-> << 164, 1, 0, 0 >>,
          mode_write      |-> << 165 >>,
          mode_verify     |-> << 166 >>,
          config_read     |-> << 167, 2, 0, 31, 0 >> ] ]

\* chip id -> erase_blocks (the only field the engine reads)
DEFINITIONS ==
    [ c \in {81, 82, 83, 84, 88, 89} |->
        [ flash_blocks |-> CASE c = 81 -> 10 [] c = 82 -> 16 [] c = 83 -> 10
                             [] c = 84 -> 16 [] c = 88 -> 40 [] c = 89 -> 64,
          erase_blocks |-> CASE c = 81 -> 10 [] c = 82 -> 14 [] c = 83 -> 10
                             [] c = 84 -> 14 [] c = 88 -> 32 [] c = 89 -> 60 ] ]

\* Protocol::PACKET_MAXLEN
PACKET_MAXLEN == 256

ProtocolError ==
    { "PreableMismatch", "ChecksumMismatch", "SerialTimeout", "SerialError",
      "FileAccessError", "FileFormatError", "BootloaderUnknown", "ChipUnknown" }

\* -------------------------------------------------------------------------
\* Protocol::request_send as a function of the payload and of the bytes the
\* device delivers before the read times out.
\*   tx    the frame written to the port (<< >> when the frame was never
\*         written because building it panicked)
\*   buf   the bytes stored in pkt_buffer (the rest of the buffer is zero)
\*   out   "Ok", an error, or "Panic"
\*   reply the returned payload slice (<< >> unless out = "Ok")
\* -------------------------------------------------------------------------

\* pkt_buffer[i] of a buffer cleared to zero and then filled with buf
BufAt(buf, i) == IF i < Len(buf) THEN At(buf, i) ELSE 0

\* lines 277-282: the preamble test
preamble_ok(buf) == BufAt(buf, 0) = 85 /\ BufAt(buf, 1) = 170

\* lines 284-289: sum of pkt_buffer[2 .. reply_len - 1)
reply_checksum(buf) ==
    IF Len(buf) - 1 > 2 THEN checksum8(Slice(buf, 2, Len(buf) - 1)) ELSE 0

\* lines 271-301: what request_send makes of the stored reply
classify(buf) ==
    IF Len(buf) = 0 THEN "SerialTimeout"
    ELSE IF ~preamble_ok(buf) THEN "PreableMismatch"
    ELSE IF reply_checksum(buf) # BufAt(buf, Len(buf) - 1) THEN "ChecksumMismatch"
    ELSE "Ok"

\* lines 243-256: preamble, payload, checksum
request_frame(sequence) == << 87, 171 >> \o sequence \o << checksum8(sequence) >>

\* request_send with a read loop that stores every byte the device delivers
request_send_unbounded(sequence, stream) ==
    [tx |-> request_frame(sequence), buf |-> stream, out |-> classify(stream),
     reply |-> IF classify(stream) = "Ok"
               THEN Slice(stream, 2, Len(stream) - 1) ELSE << >>]

request_send(sequence, stream) ==
    IF 2 + Len(sequence) >= PACKET_MAXLEN
    THEN \* request[2 + sequence_len] is out of range (line 249 or 256)
         [tx |-> << >>, buf |-> << >>, out |-> "Panic", reply |-> << >>]
    ELSE IF Len(stream) >= PACKET_MAXLEN
    THEN \* pkt_buffer[256..257] is out of range (line 265)
         [tx |-> request_frame(sequence), buf |-> SubSeq(stream, 1, PACKET_MAXLEN),
          out |-> "Panic", reply |-> << >>]
    ELSE [tx |-> request_frame(sequence), buf |-> stream, out |-> classify(stream),
          reply |-> IF classify(stream) = "Ok"
                    THEN Slice(stream, 2, Len(stream) - 1) ELSE << >>]

\* -------------------------------------------------------------------------
\* Protocol::bootloader_detect, lines 312-325: the variant a probe yields
\* -------------------------------------------------------------------------

\* detect_variant with the two variants swapped
detect_variant_swapped(r) ==
    IF r.out = "Ok"
    THEN IF Len(r.reply) = 2 THEN "V2" ELSE "V1"
    ELSE "Unknown"

detect_variant(r) ==
    IF r.out = "Ok"
    THEN IF Len(r.reply) = 2 THEN "V1" ELSE "V2"
    ELSE "Unknown"

\* -------------------------------------------------------------------------
\* Protocol::chip_detect, V2 key input (lines 382-414)
\* -------------------------------------------------------------------------

\* lines 383-398: opcode, 0x30, 0x00, then the 48 random bytes
key_request(random) == << 163, 48, 0 >> \o random

\* lines 389-392: sum of config-reply bytes 22..26
config_checksum(config_reply) == checksum8(Slice(config_reply, 22, 26))

\* key_index with every division by 7
key_index_sevens(request, i) ==
    CASE i = 0 -> 3 + (At(request, 1) \div 7) * 4
      [] i = 1 -> 3 + (At(request, 1) \div 7)
      [] i = 2 -> 3 + (At(request, 1) \div 7)
      [] i = 3 -> 3 + (At(request, 1) \div 7) * 6
      [] i = 4 -> 3 + (At(request, 1) \div 7) * 3
      [] i = 5 -> 3 + (At(request, 1) \div 7) * 3
      [] i = 6 -> 3 + (At(request, 1) \div 7) * 5

\* lines 401-407: the request index each of the first seven key bytes reads
key_index(request, i) ==
    CASE i = 0 -> 3 + (At(request, 1) \div 7) * 4
      [] i = 1 -> 3 + (At(request, 1) \div 5)
      [] i = 2 -> 3 + (At(request, 1) \div 7)
      [] i = 3 -> 3 + (At(request, 1) \div 7) * 6
      [] i = 4 -> 3 + (At(request, 1) \div 7) * 3
      [] i = 5 -> 3 + (At(request, 1) \div 5) * 3
      [] i = 6 -> 3 + (At(request, 1) \div 7) * 5

\* lines 401-408: the bootkey, as a function 0..7 -> Byte
derive_bootkey(request, checksum, chip) ==
    [ i \in 0..7 |->
        IF i < 7
        THEN xor8(At(request, key_index(request, i)), checksum)
        ELSE overflowing_add(chip, xor8(At(request, key_index(request, 0)), checksum)) ]

\* lines 411-414
key_checksum(key) == checksum8([k \in 1..8 |-> key[k - 1]])

\* -------------------------------------------------------------------------
\* Protocol::erase request payloads
\* -------------------------------------------------------------------------

\* lines 154-155; erase_block_index is a u8 and the product is cast to u8
erase_block_request(erase_block_index) ==
    << 169, 2, 0, (erase_block_index * 4) % 256 >>

\* lines 176-186
device_erase_sequence(chip) ==
    [SEQUENCES.V2.flash_erase EXCEPT ![4] = DEFINITIONS[chip].erase_blocks]

\* -------------------------------------------------------------------------
\* Protocol::flash_file packets (lines 475-563)
\* -------------------------------------------------------------------------

Mode == {"Write", "Verify"}

\* lines 476-477
len_bound(filesize) == filesize + (filesize % 8)

\* lines 480-489
mode_code(variant, m) ==
    IF m = "Verify" THEN SEQUENCES[variant].mode_verify[1]
    ELSE SEQUENCES[variant].mode_write[1]

\* lines 501-505
v1_pkt_length(to_send) == IF to_send >= 60 THEN 60 ELSE to_send

\* lines 496-518: the 64-byte packet, all of which is handed to request_send
v1_packet(m, file, addr, to_send) ==
    LET pkt_length == v1_pkt_length(to_send) IN
    [ k \in 1..64 |->
        CASE k = 1 -> mode_code("V1", m)
          [] k = 2 -> pkt_length % 256
          [] k = 3 -> addr % 256
          [] k = 4 -> (addr \div 256) % 256
          [] k > 4 /\ k <= pkt_length + 4 -> file[addr + k - 4]
          [] OTHER -> 0 ]

\* lines 532-536
v2_pkt_length(to_send) == IF to_send >= 56 THEN 56 ELSE to_send

\* line 553
v2_padded(pkt_length) == pkt_length + (pkt_length % 8)

\* v2_key_index off by one
v2_key_index_shifted(buffer_index) == (buffer_index + 1) % 8

\* line 557: the key byte that obfuscates data byte buffer_index of a packet
v2_key_index(buffer_index) == buffer_index % 8

\* lines 556-558 index packet[buffer_index + 8] for buffer_index < padded length
v2_packet_panics(to_send) == v2_padded(v2_pkt_length(to_send)) + 8 > 64

\* lines 538-563: header, chunk, zero padding, XOR with the bootkey; the slice
\* handed to request_send is packet[.. padded + 8]
v2_packet(m, file, addr, to_send, key) ==
    LET pkt_length == v2_pkt_length(to_send) IN
    [ k \in 1..(v2_padded(pkt_length) + 8) |->
        CASE k = 1 -> mode_code("V2", m)
          [] k = 2 -> (pkt_length + (pkt_length % 8) + 5) % 256
          [] k = 3 -> 0
          [] k = 4 -> addr % 256
          [] k = 5 -> (addr \div 256) % 256
          [] k = 6 -> 0
          [] k = 7 -> 0
          [] k = 8 -> to_send % 256
          [] OTHER ->
               xor8(IF k - 8 <= pkt_length THEN file[addr + k - 8] ELSE 0,
                    key[v2_key_index(k - 9)]) ]

\* -------------------------------------------------------------------------
\* What an operation makes of the outcome r of one exchange.  "Ok" means the
\* operation goes on; an error is what it returns; "Panic" is an index out of
\* range on the reply slice.
\* -------------------------------------------------------------------------

\* erase, V1, lines 146-173 and 207: the flash-erase template's reply is only
\* tested with is_ok(); a failed exchange falls through to Err(ChipUnknown);
\* DEFINITIONS[&chip_id] panics for an id that is not registered
erase_v1_template_outcome(r, chip) ==
    IF r.out = "Panic" THEN "Panic"
    ELSE IF r.out # "Ok" THEN "ChipUnknown"
    ELSE IF chip \notin DOMAIN DEFINITIONS THEN "Panic"
    ELSE "Ok"

\* erase, V1, lines 159-167
erase_block_outcome(r) ==
    IF r.out # "Ok" THEN r.out
    ELSE IF Len(r.reply) <= 0 THEN "Panic"
    ELSE IF At(r.reply, 0) # 0 THEN "ChipUnknown"
    ELSE "Ok"

\* erase, V2, lines 188-196
erase_v2_outcome(r) ==
    IF r.out # "Ok" THEN r.out
    ELSE IF Len(r.reply) <= 4 THEN "Panic"
    ELSE IF At(r.reply, 4) # 0 THEN "ChipUnknown"
    ELSE "Ok"

\* chip_id_outcome accepting a reply longer than expected
chip_id_outcome_longer(r, expect) ==
    IF r.out # "Ok" THEN r.out
    ELSE IF Len(r.reply) < expect THEN "ChipUnknown"
    ELSE "Ok"

\* chip_detect, lines 333-337 (V1: expect = 2) and 360-364 (V2: expect = 6)
chip_id_outcome(r, expect) ==
    IF r.out # "Ok" THEN r.out
    ELSE IF Len(r.reply) # expect THEN "ChipUnknown"
    ELSE "Ok"

\* chip_detect, lines 343-347 (V1: expect = 2) and 370-375 (V2: expect = 30)
config_outcome(r, expect) ==
    IF r.out # "Ok" THEN r.out
    ELSE IF Len(r.reply) # expect THEN "BootloaderUnknown"
    ELSE "Ok"

\* chip_detect, lines 417-426
key_outcome(r, expected_checksum) ==
    IF r.out # "Ok" THEN r.out
    ELSE IF Len(r.reply) <= 4 THEN "Panic"
    ELSE IF At(r.reply, 4) # expected_checksum THEN "BootloaderUnknown"
    ELSE "Ok"

\* flash_file, V1, lines 518-528
flash_v1_outcome(r) ==
    IF r.out # "Ok" THEN r.out
    ELSE IF Len(r.reply) <= 0 THEN "Panic"
    ELSE IF At(r.reply, 0) # 0 THEN "SerialError"
    ELSE "Ok"

\* flash_file, V2, lines 563-570
flash_v2_outcome(r) ==
    IF r.out # "Ok" THEN r.out
    ELSE IF Len(r.reply) <= 4 THEN "Panic"
    ELSE IF At(r.reply, 4) # 0 /\ At(r.reply, 4) # 254 THEN "SerialError"
    ELSE "Ok"

\* bootloader_exit, lines 219-228
exit_outcome(r) == r.out

\* -------------------------------------------------------------------------
\* The flows: what each does when it is entered (label "start") and when the
\* operation it called has returned r.  The answer is either a return
\* ("ret", with the result) or the next operation to call.
\* -------------------------------------------------------------------------

Ret(r) == [ret |-> TRUE, result |-> r, op |-> "none", mode |-> "Write", fpc |-> "none"]

Go(o, m, label) == [ret |-> FALSE, result |-> "none", op |-> o, mode |-> m, fpc |-> label]

\* Protocol::write, lines 84-90
write_chip(chip) ==
    IF chip = 0 THEN Go("chip_detect", "Write", "chip") ELSE Go("erase", "Write", "erase")

\* write going on to flash_file whatever erase returned
write_past_erase(label, r, variant, chip) ==
    CASE label = "start" ->
           IF variant = "Unknown" THEN Go("bootloader_detect", "Write", "boot")
           ELSE write_chip(chip)
      [] label = "boot" ->
           IF variant = "Unknown" THEN Ret("BootloaderUnknown") ELSE write_chip(chip)
      [] label = "chip" ->
           IF r # "Ok" THEN Ret(r) ELSE Go("erase", "Write", "erase")
      [] label = "erase" -> Go("flash_file", "Write", "write")
      [] label = "write" ->
           IF r # "Ok" THEN Ret(r) ELSE Go("flash_file", "Verify", "verify")
      [] label = "verify" ->
           IF r # "Ok" THEN Ret(r) ELSE Go("bootloader_exit", "Verify", "exit")
      [] label = "exit" ->
           IF r # "Ok" THEN Ret(r) ELSE Ret("Ok")

\* Protocol::write, lines 74-102
write(label, r, variant, chip) ==
    CASE label = "start" ->
           IF variant = "Unknown" THEN Go("bootloader_detect", "Write", "boot")
           ELSE write_chip(chip)
      [] label = "boot" ->
           IF variant = "Unknown" THEN Ret("BootloaderUnknown") ELSE write_chip(chip)
      [] label = "chip" ->
           IF r # "Ok" THEN Ret(r) ELSE Go("erase", "Write", "erase")
      [] label = "erase" ->
           IF r # "Ok" THEN Ret(r) ELSE Go("flash_file", "Write", "write")
      [] label = "write" ->
           IF r # "Ok" THEN Ret(r) ELSE Go("flash_file", "Verify", "verify")
      [] label = "verify" ->
           IF r # "Ok" THEN Ret(r) ELSE Go("bootloader_exit", "Verify", "exit")
      [] label = "exit" ->
           IF r # "Ok" THEN Ret(r) ELSE Ret("Ok")

\* verify flashing in Write mode
verify_write_mode(label, r) ==
    CASE label = "start" -> Go("bootloader_detect", "Verify", "boot")
      [] label = "boot" -> Go("chip_detect", "Verify", "chip")
      [] label = "chip" ->
           IF r # "Ok" THEN Ret(r) ELSE Go("flash_file", "Write", "verify")
      [] label = "verify" ->
           IF r # "Ok" THEN Ret(r) ELSE Ret("Ok")

\* Protocol::verify, lines 128-139
verify(label, r) ==
    CASE label = "start" -> Go("bootloader_detect", "Verify", "boot")
      [] label = "boot" -> Go("chip_detect", "Verify", "chip")
      [] label = "chip" ->
           IF r # "Ok" THEN Ret(r) ELSE Go("flash_file", "Verify", "verify")
      [] label = "verify" ->
           IF r # "Ok" THEN Ret(r) ELSE Ret("Ok")

\* ChProg::detect, lib.rs lines 80-83
detect(label, r) ==
    CASE label = "start" -> Go("bootloader_detect", "Write", "boot")
      [] label = "boot" -> Go("chip_detect", "Write", "chip")
      [] label = "chip" -> Ret(r)

\* a single engine operation called on its own (ChProg::erase, ChProg::reset,
\* and the pub fns of Protocol)
direct(c, m, label, r) ==
    CASE label = "start" -> Go(c, m, "called")
      [] label = "called" -> Ret(r)

\* -------------------------------------------------------------------------
\* State
\* -------------------------------------------------------------------------

VARIABLES
    bootloader,         \* chip_info.bootloader
    chip_id,            \* chip_info.chip_id
    bootkey,            \* bootkey, a function 0..7 -> Byte
    session_key,        \* the last key the device accepted in a key exchange
    pkt_buffer,         \* the bytes stored in pkt_buffer by the last read loop
    port_tx,            \* the last frame written to the port
    sequence,           \* the payload of the last request_send call
    stream,             \* the bytes the device delivered in the last exchange
    xres,               \* outcome of the last request_send call
    reply,              \* payload slice the last request_send call returned
    tx_kind,            \* which request the last frame written was
    op_tx,              \* frames written by the running engine operation
    acked,              \* every exchange of the running operation was accepted
    seen,               \* the kinds of request written since the call began
    first_err,          \* the first error an operation returned to the call
    call,               \* the caller's call in progress, "none", or "halt"
    fpc,                \* position in the flow of that call
    op,                 \* the engine operation running inside it
    pc,                 \* position in that operation
    opres,              \* what the last engine operation returned
    result,             \* what the last call returned
    file,               \* flash_file: the file read from filename
    mode,               \* flash_file: mode
    cur_addr,           \* flash_file: cur_addr
    bytes_to_send,      \* flash_file: bytes_to_send
    erase_block_index,  \* erase: erase_block_index
    dev_chip,           \* the chip id the connected device reports
    args,               \* main: the parsed command line
    main_pc,            \* main: the statement it is at ("off": no main running)
    ran                 \* main: the ChProg calls it has made, in order

session == << bootloader, chip_id, bootkey, session_key >>

wire == << pkt_buffer, port_tx, sequence, stream, xres, reply, tx_kind, op_tx, acked,
           seen >>

ctl == << call, fpc, op, pc, opres, result, first_err >>

loopv == << file, mode, cur_addr, bytes_to_send, erase_block_index >>

\* what no engine operation touches: the device and the command line
outer == << dev_chip, args, main_pc, ran >>

cli == << args, main_pc, ran >>

vars == << bootloader, chip_id, bootkey, session_key, pkt_buffer, port_tx, sequence, stream, xres,
           reply, tx_kind, op_tx, acked, seen, first_err, call, fpc, op, pc, opres,
           result, file, mode, cur_addr, bytes_to_send, erase_block_index, dev_chip,
           args, main_pc, ran >>

\* -------------------------------------------------------------------------
\* Bounds and inputs: the devices, the device's byte streams, the random
\* buffers and the firmware files the model draws from
\* -------------------------------------------------------------------------

\* flash packets one flash_file call may send in the model
MaxFlashPackets == 4

\* number of distinct 48-byte random buffers rng may produce in the model
NumRandom == 2

\* number of distinct config replies the device may give in the model
NumConfig == 1

\* the n-th 48-byte buffer rng.gen() fills (lines 395-398)
RandomBuffer(n) == [k \in 1..48 |-> (k * k * n + 5 * k + 97 * n) % 256]

RandomBuffers == { RandomBuffer(n) : n \in 1..NumRandom }

\* the image of a firmware file of n bytes
Image(n) == [k \in 1..n |-> (37 * k + 11) % 256]

NoFile == [exists |-> FALSE, data |-> << >>]

FileOf(n) == [exists |-> TRUE, data |-> Image(n)]

\* the frame a device sends for a reply payload (wire format of the reply)
Frame(payload) == << 85, 170 >> \o payload \o << checksum8(payload) >>

\* a 30-byte config reply: version in bytes 19..21, bytes 22..25 feed checksum8
ConfigPayload(n) ==
    [k \in 1..30 |-> IF k \in 20..22 THEN k - 18
                     ELSE IF k \in 23..26 THEN (60 * n + 3 * k) % 256
                     ELSE 0]

\* streams that are no reply frame: silence, one byte, a bare preamble, a wrong
\* preamble before a valid checksum, a wrong checksum
FaultStreams ==
    { << >>, << 85 >>, << 85, 170 >>, << 85, 171, 0, 0, 0 >>, << 85, 170, 0, 0, 1 >> }

\* a reply frame with an empty payload
EmptyReply == Frame(<< >>)

\* a reply frame of PACKET_MAXLEN bytes
LongReply == Frame(Zeros(PACKET_MAXLEN - 3))

\* what a device may answer to any request
CommonStreams == FaultStreams \cup {EmptyReply, LongReply}

\* V1 ack and nack (byte 0), V2 acks and nack (byte 4)
AckStreams ==
    { Frame(<< 0, 0 >>), Frame(<< 1, 0 >>), Frame(<< 0, 0, 0, 0, 0, 0 >>),
      Frame(<< 0, 0, 0, 0, 254, 0 >>), Frame(<< 0, 0, 0, 0, 1, 0 >>) }

\* the chip replies of a V1 and of a V2 device with chip id dev
ChipStreams(dev) == { Frame(<< dev, 17 >>), Frame(<< dev, 17, 0, 0, dev, 17 >>) }

\* the config replies of a V1 and of a V2 device
ConfigStreams == { Frame(<< 35, 1 >>) } \cup { Frame(ConfigPayload(n)) : n \in 1..NumConfig }

\* the key replies of a device for a key whose checksum is sum: accepted,
\* rejected, too short
KeyStreams(sum) ==
    { Frame(<< 0, 0, 0, 0, sum, 0 >>), Frame(<< 0, 0, 0, 0, (sum + 1) % 256, 0 >>),
      Frame(<< 0, 0 >>) }

\* -------------------------------------------------------------------------
\* Building blocks of the actions
\* -------------------------------------------------------------------------

\* one request_send call: payload seq, device bytes s, outcome r; ok tells
\* whether the calling operation accepted the reply
Exchange(kind, seq, s, r, ok) ==
    /\ port_tx' = IF r.tx = << >> THEN port_tx ELSE r.tx
    /\ pkt_buffer' = r.buf
    /\ sequence' = seq
    /\ stream' = s
    /\ xres' = r.out
    /\ reply' = r.reply
    /\ tx_kind' = kind
    /\ op_tx' = op_tx + 1
    /\ acked' = (acked /\ ok)
    /\ seen' = seen \cup {kind}

\* the process dies
Crash ==
    /\ call' = "halt"
    /\ op' = "none"
    /\ pc' = "none"
    /\ result' = "Panic"
    /\ UNCHANGED << fpc, opres, first_err >>

\* the running operation returns r to the flow that called it
Return(r) ==
    /\ op' = "none"
    /\ pc' = "none"
    /\ opres' = r
    /\ first_err' = IF first_err = "none" /\ r \in ProtocolError THEN r ELSE first_err
    /\ UNCHANGED << call, fpc, result >>

\* the running operation goes on at label
Goto(label) ==
    /\ pc' = label
    /\ UNCHANGED << call, fpc, op, opres, result, first_err >>

\* Crash, Return or Goto according to an outcome
Continue(outcome, label) ==
    IF outcome = "Panic" THEN Crash
    ELSE IF outcome # "Ok" THEN Return(outcome)
    ELSE Goto(label)

\* Crash or Return according to an outcome
Finish(outcome) == IF outcome = "Panic" THEN Crash ELSE Return(outcome)

\* a flow takes its next step c
Dispatch(c) ==
    IF c.ret
    THEN /\ call' = "none"
         /\ fpc' = "none"
         /\ result' = c.result
         /\ UNCHANGED << op, pc, opres, first_err, session, wire, loopv, outer >>
    ELSE /\ op' = c.op
         /\ pc' = "start"
         /\ fpc' = c.fpc
         /\ mode' = c.mode
         /\ op_tx' = 0
         /\ acked' = TRUE
         /\ cur_addr' = 0
         /\ bytes_to_send' = 0
         /\ erase_block_index' = 0
         /\ UNCHANGED << call, opres, result, first_err, session, file, outer,
                         pkt_buffer, port_tx, sequence, stream, xres, reply, tx_kind,
                         seen >>

\* -------------------------------------------------------------------------
\* The caller
\* -------------------------------------------------------------------------

\* the caller calls c (in mode m, when c is flash_file).  What the last call
\* left in pkt_buffer is dropped: request_send clears the buffer (line 238)
\* before anything reads it.
Enter(c, m) ==
    /\ call = "none"
    /\ call' = c
    /\ fpc' = "start"
    /\ op' = "none"
    /\ pc' = "none"
    /\ opres' = "none"
    /\ result' = "none"
    /\ first_err' = "none"
    /\ file' = NoFile
    /\ mode' = m
    /\ pkt_buffer' = << >>
    /\ port_tx' = << >>
    /\ sequence' = << >>
    /\ stream' = << >>
    /\ xres' = "none"
    /\ reply' = << >>
    /\ tx_kind' = "none"
    /\ op_tx' = 0
    /\ acked' = TRUE
    /\ seen' = {}
    /\ cur_addr' = 0
    /\ bytes_to_send' = 0
    /\ erase_block_index' = 0
    /\ UNCHANGED << session, dev_chip >>

\* a call made by a caller other than main
Invoke(c, m) == Enter(c, m) /\ UNCHANGED cli

write_flow ==
    /\ call = "write"
    /\ op = "none"
    /\ Dispatch(write(fpc, opres, bootloader, chip_id))

verify_flow ==
    /\ call = "verify"
    /\ op = "none"
    /\ Dispatch(verify(fpc, opres))

detect_flow ==
    /\ call = "detect"
    /\ op = "none"
    /\ Dispatch(detect(fpc, opres))

DirectCalls ==
    { "bootloader_detect", "chip_detect", "erase", "bootloader_exit", "chip_reset",
      "flash_file" }

direct_call ==
    /\ call \in DirectCalls
    /\ op = "none"
    /\ Dispatch(direct(call, mode, fpc, opres))

\* -------------------------------------------------------------------------
\* Engine operations, one action per exchange
\* -------------------------------------------------------------------------

\* Protocol::chip_reset, lines 105-125: only the control lines are driven
chip_reset ==
    /\ op = "chip_reset"
    /\ Return("Unit")
    /\ UNCHANGED << session, wire, loopv, outer >>

\* already_detected that never holds: every call probes again
never_detected(variant) == FALSE

\* Protocol::bootloader_detect, lines 306-309: nothing to do
already_detected(variant) == variant # "Unknown"

\* Protocol::bootloader_detect, lines 305-326
bootloader_detect ==
    /\ op = "bootloader_detect"
    /\ IF already_detected(bootloader)
       THEN /\ Return("Unit")
            /\ UNCHANGED << session, wire, loopv, outer >>
       ELSE \E s \in CommonStreams \cup ChipStreams(dev_chip) :
              LET seq == SEQUENCES.V2.chip_detect
                  r == request_send(seq, s)
              IN /\ Exchange("probe", seq, s, r, r.out = "Ok")
                 /\ IF r.out = "Panic"
                    THEN Crash /\ UNCHANGED bootloader
                    ELSE Return("Unit") /\ bootloader' = detect_variant(r)
                 /\ UNCHANGED << chip_id, bootkey, session_key, loopv, outer >>

\* Protocol::chip_detect, lines 329-340 and 355-367 and 431-435
chip_detect_id ==
    /\ op = "chip_detect"
    /\ pc = "start"
    /\ IF bootloader = "Unknown"
       THEN /\ Return("BootloaderUnknown")
            /\ UNCHANGED << session, wire, loopv, outer >>
       ELSE \E s \in CommonStreams \cup ChipStreams(dev_chip) :
              LET seq == SEQUENCES[bootloader].chip_detect
                  r == request_send(seq, s)
                  o == chip_id_outcome(r, IF bootloader = "V1" THEN 2 ELSE 6)
              IN /\ Exchange("chip_detect", seq, s, r, o = "Ok")
                 /\ Continue(o, "config")
                 /\ chip_id' = IF o = "Ok"
                               THEN At(r.reply, IF bootloader = "V1" THEN 0 ELSE 4)
                               ELSE chip_id
                 /\ UNCHANGED << bootloader, bootkey, session_key, loopv, outer >>

\* Protocol::chip_detect, lines 342-353 and 369-380
chip_detect_config ==
    /\ op = "chip_detect"
    /\ pc = "config"
    /\ \E s \in CommonStreams \cup ConfigStreams :
         LET seq == SEQUENCES[bootloader].config_read
             r == request_send(seq, s)
             o == config_outcome(r, IF bootloader = "V1" THEN 2 ELSE 30)
         IN /\ Exchange("config_read", seq, s, r, o = "Ok")
            /\ IF bootloader = "V1" THEN Finish(o) ELSE Continue(o, "key")
            /\ UNCHANGED << session, loopv, outer >>

\* Protocol::chip_detect, lines 382-426: reply still holds the config reply
chip_detect_key ==
    /\ op = "chip_detect"
    /\ pc = "key"
    /\ \E random \in RandomBuffers :
         LET request == key_request(random)
             key == derive_bootkey(request, config_checksum(reply), chip_id)
         IN \E s \in CommonStreams \cup KeyStreams(key_checksum(key)) :
              LET seq == Slice(request, 0, 51)
                  r == request_send(seq, s)
                  o == key_outcome(r, key_checksum(key))
              IN /\ bootkey' = key
                 /\ session_key' = IF o = "Ok" THEN key ELSE session_key
                 /\ Exchange("key", seq, s, r, o = "Ok")
                 /\ Finish(o)
                 /\ UNCHANGED << bootloader, chip_id, loopv, outer >>

\* device_erase_size reading the wrong field of the profile
device_flash_size(chip) == DEFINITIONS[chip].flash_blocks

\* Protocol::erase, lines 150 and 175: the number of blocks to erase
device_erase_size(chip) == DEFINITIONS[chip].erase_blocks

\* Protocol::erase, lines 142-150, 174-208
erase_start ==
    /\ op = "erase"
    /\ pc = "start"
    /\ CASE bootloader = "Unknown" ->
              /\ Return("BootloaderUnknown")
              /\ UNCHANGED << session, wire, loopv, outer >>
         [] bootloader = "V1" ->
              \E s \in CommonStreams \cup AckStreams :
                LET seq == SEQUENCES.V1.flash_erase
                    r == request_send(seq, s)
                    o == erase_v1_template_outcome(r, chip_id)
                IN /\ Exchange("erase", seq, s, r, r.out = "Ok")
                   /\ IF o = "Ok" /\ device_erase_size(chip_id) = 0
                      THEN Return("Ok")
                      ELSE Continue(o, "block")
                   /\ UNCHANGED << session, loopv, outer >>
         [] bootloader = "V2" ->
              IF chip_id \notin DOMAIN DEFINITIONS
              THEN /\ Crash
                   /\ UNCHANGED << session, wire, loopv, outer >>
              ELSE \E s \in CommonStreams \cup AckStreams :
                     LET seq == device_erase_sequence(chip_id)
                         r == request_send(seq, s)
                         o == erase_v2_outcome(r)
                     IN /\ Exchange("erase", seq, s, r, o = "Ok")
                        /\ Finish(o)
                        /\ UNCHANGED << session, loopv, outer >>

\* Protocol::erase, lines 152-171: one pass of the per-block loop
erase_block ==
    /\ op = "erase"
    /\ pc = "block"
    /\ \E s \in CommonStreams \cup AckStreams :
         LET seq == erase_block_request(erase_block_index)
             r == request_send(seq, s)
             o == erase_block_outcome(r)
             last == erase_block_index + 1 >= device_erase_size(chip_id)
         IN /\ Exchange("erase_block", seq, s, r, o = "Ok")
            /\ IF o = "Ok" /\ last THEN Return("Ok") ELSE Continue(o, "block")
            /\ erase_block_index' = IF o = "Ok" THEN erase_block_index + 1
                                    ELSE erase_block_index
            /\ UNCHANGED << session, file, mode, cur_addr, bytes_to_send, outer >>

\* Protocol::bootloader_exit, lines 211-229
bootloader_exit ==
    /\ op = "bootloader_exit"
    /\ IF bootloader = "Unknown"
       THEN /\ Return("BootloaderUnknown")
            /\ UNCHANGED << session, wire, loopv, outer >>
       ELSE \E s \in CommonStreams \cup AckStreams :
              LET seq == SEQUENCES[bootloader].bootloader_exit
                  r == request_send(seq, s)
                  o == exit_outcome(r)
              IN /\ Exchange("exit", seq, s, r, o = "Ok")
                 /\ Finish(o)
                 /\ UNCHANGED << session, loopv, outer >>

\* flash_file_checks accepting a file of 31 bytes
flash_file_checks_short(variant, f) ==
    IF variant = "Unknown" THEN "BootloaderUnknown"
    ELSE IF ~f.exists THEN "FileAccessError"
    ELSE IF Len(f.data) < 31 THEN "FileFormatError"
    ELSE "Ok"

\* flash_file_checks opening the file before it looks at the variant
flash_file_checks_file_first(variant, f) ==
    IF ~f.exists THEN "FileAccessError"
    ELSE IF variant = "Unknown" THEN "BootloaderUnknown"
    ELSE IF Len(f.data) < 32 THEN "FileFormatError"
    ELSE "Ok"

\* Protocol::flash_file, lines 442-473: what the checks before the packet loop
\* return for the file f that filename names ("Ok": the loop is entered)
flash_file_checks(variant, f) ==
    IF variant = "Unknown" THEN "BootloaderUnknown"
    ELSE IF ~f.exists THEN "FileAccessError"
    ELSE IF Len(f.data) < 32 THEN "FileFormatError"
    ELSE "Ok"

\* Protocol::flash_file, lines 442-494, for a file drawn from files
flash_file_open(files) ==
    /\ op = "flash_file"
    /\ pc = "start"
    /\ \E f \in files :
         LET o == flash_file_checks(bootloader, f) IN
         /\ file' = IF bootloader = "Unknown" THEN file ELSE f
         /\ cur_addr' = 0
         /\ bytes_to_send' = IF o = "Ok" THEN Len(f.data) ELSE 0
         /\ IF o = "Ok" /\ ~(0 < len_bound(Len(f.data)))
            THEN Return("Ok")
            ELSE Continue(o, "packet")
    /\ UNCHANGED << session, wire, mode, erase_block_index, outer >>

\* the kind of a flash packet
flash_kind(m) == IF m = "Write" THEN "flash_write" ELSE "flash_verify"

\* Protocol::flash_file, lines 494-529: one pass of the loop under V1
flash_v1 ==
    /\ op = "flash_file"
    /\ pc = "packet"
    /\ bootloader = "V1"
    /\ op_tx < MaxFlashPackets
    /\ \E s \in CommonStreams \cup AckStreams :
         LET pkt_length == v1_pkt_length(bytes_to_send)
             seq == v1_packet(mode, file.data, cur_addr, bytes_to_send)
             r == request_send(seq, s)
             o == flash_v1_outcome(r)
             sent == r.out = "Ok"
             addr == IF sent THEN cur_addr + pkt_length ELSE cur_addr
         IN /\ Exchange(flash_kind(mode), seq, s, r, o = "Ok")
            /\ cur_addr' = addr
            /\ bytes_to_send' = IF sent THEN bytes_to_send - pkt_length
                                ELSE bytes_to_send
            /\ IF o = "Ok" /\ ~(addr < len_bound(Len(file.data)))
               THEN Return("Ok")
               ELSE Continue(o, "packet")
            /\ UNCHANGED << session, file, mode, erase_block_index, outer >>

\* Protocol::flash_file, lines 494-498, 530-579: one pass of the loop under V2
flash_v2 ==
    /\ op = "flash_file"
    /\ pc = "packet"
    /\ bootloader = "V2"
    /\ op_tx < MaxFlashPackets
    /\ IF v2_packet_panics(bytes_to_send)
       THEN /\ Crash
            /\ UNCHANGED << session, wire, loopv, outer >>
       ELSE \E s \in CommonStreams \cup AckStreams :
              LET pkt_length == v2_padded(v2_pkt_length(bytes_to_send))
                  seq == v2_packet(mode, file.data, cur_addr, bytes_to_send, bootkey)
                  r == request_send(seq, s)
                  o == flash_v2_outcome(r)
                  addr == IF o = "Ok" THEN cur_addr + pkt_length ELSE cur_addr
                  more == bytes_to_send >= pkt_length
              IN /\ Exchange(flash_kind(mode), seq, s, r, o = "Ok")
                 /\ cur_addr' = addr
                 /\ bytes_to_send' = IF o = "Ok" /\ more
                                     THEN bytes_to_send - pkt_length
                                     ELSE bytes_to_send
                 /\ IF o = "Ok" /\ (~more \/ ~(addr < len_bound(Len(file.data))))
                    THEN Return("Ok")
                    ELSE Continue(o, "packet")
                 /\ UNCHANGED << session, file, mode, erase_block_index, outer >>

\* -------------------------------------------------------------------------
\* Spec: one engine (Protocol::new) and a caller that calls its operations in
\* any order, against a device that may answer every request with any stream
\* -------------------------------------------------------------------------

ZeroKey == [i \in 0..7 |-> 0]

\* no key exchange has succeeded
NoKey == << >>

\* the command line when no main is running
NoArgs == [port |-> "none", write |-> FALSE, verify |-> FALSE, detect |-> FALSE,
           erase |-> FALSE, reset |-> FALSE, file |-> FALSE]

\* Protocol::new, lines 61-71, with nothing called yet
FreshEngine(variant, chip, key, dev) ==
    /\ bootloader = variant
    /\ chip_id = chip
    /\ bootkey = key
    /\ session_key = IF key = ZeroKey THEN NoKey ELSE key
    /\ pkt_buffer = << >>
    /\ port_tx = << >>
    /\ sequence = << >>
    /\ stream = << >>
    /\ xres = "none"
    /\ reply = << >>
    /\ tx_kind = "none"
    /\ op_tx = 0
    /\ acked = TRUE
    /\ seen = {}
    /\ first_err = "none"
    /\ call = "none"
    /\ fpc = "none"
    /\ op = "none"
    /\ pc = "none"
    /\ opres = "none"
    /\ result = "none"
    /\ file = NoFile
    /\ mode = "Write"
    /\ cur_addr = 0
    /\ bytes_to_send = 0
    /\ erase_block_index = 0
    /\ dev_chip = dev

\* a new engine with no main running
Fresh(variant, chip, key, dev) ==
    /\ FreshEngine(variant, chip, key, dev)
    /\ args = NoArgs
    /\ main_pc = "off"
    /\ ran = << >>

\* the devices of a session: a registered chip, chip id 0 and a chip id that
\* is not registered
SessionChips == {82, 0, 119}

Init == \E dev \in SessionChips : Fresh("Unknown", 0, ZeroKey, dev)

\* the calls of a session: the pub fns of Protocol and ChProg::detect
SessionCalls ==
    { "write", "verify", "detect", "bootloader_detect", "chip_detect", "erase",
      "bootloader_exit", "chip_reset" }

\* sizes of the firmware files of a session: too short, one packet, and sizes
\* that are and are not a multiple of 8 and need a second packet
SessionSizes == {31, 40, 57, 64}

SessionFiles == {NoFile} \cup { FileOf(n) : n \in SessionSizes }

Call == \E c \in SessionCalls : Invoke(c, "Write")

Next ==
    \/ Call
    \/ write_flow
    \/ verify_flow
    \/ detect_flow
    \/ direct_call
    \/ chip_reset
    \/ bootloader_detect
    \/ chip_detect_id
    \/ chip_detect_config
    \/ chip_detect_key
    \/ erase_start
    \/ erase_block
    \/ bootloader_exit
    \/ flash_file_open(SessionFiles)
    \/ flash_v1
    \/ flash_v2

Spec == Init /\ [][Next]_vars

\* -------------------------------------------------------------------------
\* SpecExchange: request_send on its own, applied to a payload and to the
\* bytes the device delivers, both drawn by the initial state
\* -------------------------------------------------------------------------

\* payloads: empty, one byte, a sum that wraps, templates, a key request, a
\* flash packet, and the longest payloads
ExchangeSequences ==
    { << >>, << 0 >>, << 255, 2 >>, SEQUENCES.V1.config_read, SEQUENCES.V2.chip_detect,
      key_request(RandomBuffer(1)), v1_packet("Write", Image(64), 0, 64),
      [k \in 1..(PACKET_MAXLEN - 3) |-> k % 256], [k \in 1..(PACKET_MAXLEN - 2) |-> 1] }

\* device bytes: the streams of a session and more faults: a sum that wraps,
\* the longest frame that fits, wrong preambles before valid checksums, a
\* checksum that is off by one, streams longer than the buffer
ExchangeStreams ==
    CommonStreams \cup AckStreams \cup ChipStreams(82) \cup ConfigStreams
    \cup { Frame(<< 255, 2 >>), Frame(Zeros(PACKET_MAXLEN - 4)), << 86, 170, 7, 7 >>,
           << 170, 85, 0 >>, << 85, 170, 200, 100, 45 >>, << 85, 170, 170 >>,
           Zeros(PACKET_MAXLEN), << 85, 170 >> \o Zeros(PACKET_MAXLEN) }

InitExchange ==
    \E seq \in ExchangeSequences, s \in ExchangeStreams :
       /\ bootloader = "Unknown"
       /\ chip_id = 0
       /\ bootkey = ZeroKey
       /\ session_key = NoKey
       /\ pkt_buffer = << >>
       /\ port_tx = << >>
       /\ sequence = seq
       /\ stream = s
       /\ xres = "none"
       /\ reply = << >>
       /\ tx_kind = "none"
       /\ op_tx = 0
       /\ acked = TRUE
       /\ seen = {}
       /\ first_err = "none"
       /\ call = "request_send"
       /\ fpc = "none"
       /\ op = "none"
       /\ pc = "none"
       /\ opres = "none"
       /\ result = "none"
       /\ file = NoFile
       /\ mode = "Write"
       /\ cur_addr = 0
       /\ bytes_to_send = 0
       /\ erase_block_index = 0
       /\ dev_chip = 0
       /\ args = NoArgs
       /\ main_pc = "off"
       /\ ran = << >>

\* Protocol::request_send, lines 232-302, called with sequence while the
\* device delivers stream
request_send_call ==
    /\ call = "request_send"
    /\ LET r == request_send(sequence, stream)
       IN /\ Exchange("raw", sequence, stream, r, r.out = "Ok")
          /\ call' = IF r.out = "Panic" THEN "halt" ELSE "none"
          /\ result' = r.out
    /\ UNCHANGED << session, fpc, op, pc, opres, first_err, loopv, outer >>

NextExchange == request_send_call

SpecExchange == InitExchange /\ [][NextExchange]_vars

\* -------------------------------------------------------------------------
\* SpecFlash: flash_file called, in either mode, on an engine that has
\* detected a V1 device, or a V2 device whose key exchange has succeeded
\* -------------------------------------------------------------------------

\* the key of a session with chip 0x52: chip_detect, lines 382-408
SessionKey == derive_bootkey(key_request(RandomBuffer(1)),
                             config_checksum(ConfigPayload(1)), 82)

\* file sizes: empty, around the 32-byte minimum and the 56- and 60-byte chunks
FlashSizes == {0, 31, 32, 33, 52, 53, 55, 56, 57, 59, 60, 61, 111, 112, 119, 120}

FlashFiles == {NoFile} \cup { FileOf(n) : n \in FlashSizes }

InitFlash ==
    \/ Fresh("V1", 82, ZeroKey, 82)
    \/ Fresh("V2", 82, SessionKey, 82)

CallFlash == \E m \in Mode : Invoke("flash_file", m)

NextFlash ==
    \/ CallFlash
    \/ direct_call
    \/ flash_file_open(FlashFiles)
    \/ flash_v1
    \/ flash_v2

SpecFlash == InitFlash /\ [][NextFlash]_vars

\* -------------------------------------------------------------------------
\* SpecErase: erase called on an engine that has detected the variant and
\* the chip, for every registered chip, chip id 0 and an unregistered id
\* -------------------------------------------------------------------------

EraseChips == DOMAIN DEFINITIONS \cup {0, 119}

InitErase ==
    \E variant \in {"V1", "V2"}, dev \in EraseChips : Fresh(variant, dev, ZeroKey, dev)

CallErase == Invoke("erase", "Write")

NextErase ==
    \/ CallErase
    \/ direct_call
    \/ erase_start
    \/ erase_block

SpecErase == InitErase /\ [][NextErase]_vars

\* -------------------------------------------------------------------------
\* SpecOps: every engine operation, flash_file included, called on its own
\* on an engine in any variant, with the chip id unset or set
\* -------------------------------------------------------------------------

OpsChips == {0, 82}

InitOps ==
    \E variant \in Bootloader, chip \in OpsChips :
       Fresh(variant, chip, IF variant = "V2" THEN SessionKey ELSE ZeroKey, 82)

CallOps == \E c \in DirectCalls, m \in Mode : Invoke(c, m)

NextOps ==
    \/ CallOps
    \/ direct_call
    \/ chip_reset
    \/ bootloader_detect
    \/ chip_detect_id
    \/ chip_detect_config
    \/ chip_detect_key
    \/ erase_start
    \/ erase_block
    \/ bootloader_exit
    \/ flash_file_open(SessionFiles)
    \/ flash_v1
    \/ flash_v2

SpecOps == InitOps /\ [][NextOps]_vars

\* -------------------------------------------------------------------------
\* SpecCli: main of chprog-cli (main.rs lines 42-95) run once, for every
\* combination of flags, on a port that opens or does not, against the
\* engine and a device that may answer every request with any stream
\* -------------------------------------------------------------------------

\* a serial port that can be opened and one that cannot
PortNames == {"ttyUSB0", "absent"}

\* Args, main.rs lines 12-40; file tells whether --file was given
Args ==
    [port : PortNames, write : BOOLEAN, verify : BOOLEAN, detect : BOOLEAN,
     erase : BOOLEAN, reset : BOOLEAN, file : BOOLEAN]

\* the files --file may name
CliFiles == {NoFile, FileOf(40)}

\* main.rs lines 43-46 and 90-93: the arguments are parsed and the port is
\* opened, or main prints an error and ends
InitCli ==
    \E a \in Args :
       /\ FreshEngine("Unknown", 0, ZeroKey, 82)
       /\ args = a
       /\ ran = << >>
       /\ main_pc = IF a.port = "ttyUSB0" THEN "reset" ELSE "exit"

\* main calls c and goes on at label
main_call(c, label) ==
    /\ Enter(c, "Write")
    /\ main_pc' = label
    /\ ran' = Append(ran, c)
    /\ UNCHANGED args

\* main goes on at label without a call
main_skip(label) ==
    /\ main_pc' = label
    /\ UNCHANGED << session, wire, ctl, loopv, dev_chip, args, ran >>

\* main.rs lines 47-51
main_reset ==
    /\ main_pc = "reset"
    /\ IF args.reset THEN main_call("chip_reset", "detect") ELSE main_skip("detect")

\* main.rs lines 53-56
main_detect ==
    /\ main_pc = "detect"
    /\ call = "none"
    /\ IF args.detect THEN main_call("detect", "detected") ELSE main_skip("erase")

\* main.rs lines 56-59: return on a detect error
main_detected ==
    /\ main_pc = "detected"
    /\ call = "none"
    /\ main_skip(IF result # "Ok" THEN "exit" ELSE "erase")

\* main.rs lines 62-64
main_erase ==
    /\ main_pc = "erase"
    /\ call = "none"
    /\ IF args.erase THEN main_call("erase", "erased") ELSE main_skip("file")

\* main.rs lines 64-67: return on an erase error
main_erased ==
    /\ main_pc = "erased"
    /\ call = "none"
    /\ main_skip(IF result # "Ok" THEN "exit" ELSE "file")

\* main_file running the flow whatever --file says
main_file_always ==
    /\ main_pc = "file"
    /\ call = "none"
    /\ IF args.verify /\ ~args.write THEN main_call("verify", "exit")
       ELSE IF args.write THEN main_call("write", "exit")
       ELSE main_skip("exit")

\* main.rs lines 70-89
main_file ==
    /\ main_pc = "file"
    /\ call = "none"
    /\ IF ~args.file THEN main_skip("exit")
       ELSE IF args.verify /\ ~args.write THEN main_call("verify", "exit")
       ELSE IF args.write THEN main_call("write", "exit")
       ELSE main_skip("exit")

NextCli ==
    \/ main_reset
    \/ main_detect
    \/ main_detected
    \/ main_erase
    \/ main_erased
    \/ main_file
    \/ write_flow
    \/ verify_flow
    \/ detect_flow
    \/ direct_call
    \/ chip_reset
    \/ bootloader_detect
    \/ chip_detect_id
    \/ chip_detect_config
    \/ chip_detect_key
    \/ erase_start
    \/ erase_block
    \/ bootloader_exit
    \/ flash_file_open(CliFiles)
    \/ flash_v1
    \/ flash_v2

SpecCli == InitCli /\ [][NextCli]_vars

\* -------------------------------------------------------------------------
\* Vocabulary of the properties
\* -------------------------------------------------------------------------

\* the step writes a request frame
Sends == op_tx' = op_tx + 1

\* place of a request kind in the order of the write flow
Rank(kind) ==
    CASE kind = "none" -> 0
      [] kind = "probe" -> 1
      [] kind = "chip_detect" -> 2
      [] kind = "config_read" -> 3
      [] kind = "key" -> 4
      [] kind = "erase" -> 5
      [] kind = "erase_block" -> 6
      [] kind = "flash_write" -> 7
      [] kind = "flash_verify" -> 8
      [] kind = "exit" -> 9

\* the kinds that are sent at most once in a flow
OnceKinds == {"probe", "chip_detect", "config_read", "key", "erase", "exit"}

\* the kinds that must have been sent before a request of this kind
Before(kind) ==
    CASE kind = "config_read" -> {"chip_detect"}
      [] kind = "key" -> {"chip_detect", "config_read"}
      [] kind = "erase_block" -> {"erase"}
      [] kind = "flash_write" -> {"erase"}
      [] kind = "flash_verify" -> {"erase", "flash_write"}
      [] kind = "exit" -> {"erase", "flash_write", "flash_verify"}
      [] OTHER -> {}

ExchangeErrors == {"SerialTimeout", "PreableMismatch", "ChecksumMismatch"}

\* s is a reply frame: preamble, payload, checksum of the payload
IsReplyFrame(s) ==
    /\ Len(s) >= 3
    /\ s[1] = 85
    /\ s[2] = 170
    /\ s[Len(s)] = checksum8(SubSeq(s, 3, Len(s) - 1))

FramePayload(s) == SubSeq(s, 3, Len(s) - 1)

Ceil(n, d) == (n + d - 1) \div d

\* -------------------------------------------------------------------------
\* C1: in the write flow the requests are sent in the fixed order probe
\* (only with the variant Unknown), chip identification (only with chip id
\* 0), erase, Write packets, Verify packets, exit, each kind after the ones
\* that precede it; nothing is sent once an operation has returned an error,
\* the flow returns that error, and it returns Ok only after the exit
\* request.
\* -------------------------------------------------------------------------

C1_WriteOrder ==
    [][ /\ (call = "write" /\ Sends) =>
             /\ Rank(tx_kind') >= Rank(tx_kind)
             /\ (tx_kind' \in OnceKinds => tx_kind' \notin seen)
             /\ Before(tx_kind') \subseteq seen
             /\ (tx_kind' = "probe" => bootloader = "Unknown")
             /\ (tx_kind' = "chip_detect" => chip_id = 0)
             /\ first_err = "none"
        /\ (call = "write" /\ call' = "none") =>
             /\ (first_err # "none" => result' = first_err)
             /\ (result' = "Ok" => "exit" \in seen /\ first_err = "none")
             /\ (first_err = "none" /\ result' # "Ok" =>
                    result' = "BootloaderUnknown" /\ bootloader = "Unknown"
                    /\ seen = {"probe"})
      ]_vars

\* a write flow that probed, identified the chip, exchanged the key, erased,
\* flashed, verified, left the bootloader and returned Ok
C1_Witness ==
    /\ call = "none"
    /\ result = "Ok"
    /\ seen = {"probe", "chip_detect", "config_read", "key", "erase", "flash_write",
               "flash_verify", "exit"}

\* -------------------------------------------------------------------------
\* C2: the variant is Unknown at first and only ever changes from Unknown to
\* V1 or V2; bootloader_detect with a known variant sends nothing.
\* -------------------------------------------------------------------------

C2_VariantOneWay ==
    /\ bootloader = "Unknown"
    /\ [][ /\ bootloader' # bootloader =>
                bootloader = "Unknown" /\ bootloader' \in {"V1", "V2"}
           /\ (op = "bootloader_detect" /\ bootloader # "Unknown") =>
                ~Sends /\ port_tx' = port_tx /\ seen' = seen /\ op' = "none"
         ]_vars

\* bootloader_detect called on its own with the variant V1, returned, nothing
\* sent
C2_Witness ==
    /\ call = "bootloader_detect"
    /\ op = "none"
    /\ fpc = "called"
    /\ bootloader = "V1"
    /\ seen = {}

\* -------------------------------------------------------------------------
\* C3: bootloader_detect with the variant Unknown sends the V2 chip-detect
\* template once; when it returns the variant is V1 iff the exchange
\* succeeded with a 2-byte payload, V2 iff it succeeded with another payload
\* length, Unknown iff the exchange failed, and no error is reported.
\* -------------------------------------------------------------------------

C3_Detect ==
    [][ (op = "bootloader_detect" /\ bootloader = "Unknown" /\ op' = "none"
         /\ call' # "halt") =>
           /\ Sends
           /\ tx_kind' = "probe"
           /\ port_tx' = << 87, 171 >> \o SEQUENCES.V2.chip_detect
                         \o << checksum8(SEQUENCES.V2.chip_detect) >>
           /\ (bootloader' = "V1" <=> (xres' = "Ok" /\ Len(reply') = 2))
           /\ (bootloader' = "V2" <=> (xres' = "Ok" /\ Len(reply') # 2))
           /\ (bootloader' = "Unknown" <=> xres' \in ExchangeErrors)
           /\ (xres' = "Ok" <=> IsReplyFrame(stream'))
           /\ (xres' = "Ok" => reply' = FramePayload(stream'))
           /\ opres' \notin ProtocolError
      ]_vars

\* a probe answered with an empty payload: V2
C3_Witness ==
    /\ tx_kind = "probe"
    /\ op = "none"
    /\ xres = "Ok"
    /\ reply = << >>
    /\ bootloader = "V2"

\* -------------------------------------------------------------------------
\* C4: for a payload of at most 253 bytes request_send sends 57 AB, the
\* payload and its sum mod 256, and when the device answers with a reply
\* frame 55 AA, Q, sum of Q (a frame within the 256-byte frame limit) it
\* returns exactly Q.
\* -------------------------------------------------------------------------

C4_RoundTrip ==
    (call # "request_send" /\ Len(sequence) <= PACKET_MAXLEN - 3) =>
       /\ port_tx = << 87, 171 >> \o sequence \o << checksum8(sequence) >>
       /\ (IsReplyFrame(stream) /\ Len(stream) <= PACKET_MAXLEN) =>
             result = "Ok" /\ reply = FramePayload(stream)

\* -------------------------------------------------------------------------
\* C5: request_send classifies every stream that fits the 256-byte buffer in
\* the order: no byte SerialTimeout, else wrong first two bytes (a 1-byte
\* stream included) PreableMismatch, else wrong trailing byte
\* ChecksumMismatch, else Ok.
\* -------------------------------------------------------------------------

Classified(s) ==
    IF Len(s) = 0 THEN "SerialTimeout"
    ELSE IF Len(s) < 2 \/ s[1] # 85 \/ s[2] # 170 THEN "PreableMismatch"
    ELSE IF s[Len(s)] # checksum8(SubSeq(s, 3, Len(s) - 1)) THEN "ChecksumMismatch"
    ELSE "Ok"

C5_Classification ==
    (call # "request_send" /\ Len(sequence) <= PACKET_MAXLEN - 3
     /\ Len(stream) <= PACKET_MAXLEN) => result = Classified(stream)

\* -------------------------------------------------------------------------
\* C6: under V1 with every packet acknowledged, flashing L >= 32 bytes sends
\* ceil(L/60) packets and no more, each with a chunk of at most 60 bytes, the
\* last with L - 60*(ceil(L/60)-1) bytes, and then returns Ok.
\* -------------------------------------------------------------------------

C6_V1Chunks ==
    (call = "flash_file" /\ bootloader = "V1" /\ file.exists /\ Len(file.data) >= 32
     /\ acked /\ op_tx >= 1) =>
       LET L == Len(file.data)
           n == Ceil(L, 60)
       IN /\ op_tx <= n
          /\ At(sequence, 1) <= 60
          /\ op_tx = n => /\ At(sequence, 1) = L - 60 * (n - 1)
                          /\ op = "none"
                          /\ opres = "Ok"

\* -------------------------------------------------------------------------
\* C7: under V2 with every packet acknowledged, flashing L >= 32 bytes
\* returns Ok after exactly ceil(L/56) packets, each with a chunk of at most
\* 56 image bytes.
\* -------------------------------------------------------------------------

C7_V2Chunks ==
    (call \in {"flash_file", "halt"} /\ bootloader = "V2" /\ file.exists
     /\ Len(file.data) >= 32 /\ acked) =>
       LET L == Len(file.data)
           n == Ceil(L, 56)
       IN /\ result # "Panic"
          /\ op_tx <= n
          /\ op_tx >= 1 => Len(sequence) - 8 <= 56
          /\ op_tx = n => op = "none" /\ opres = "Ok"

\* -------------------------------------------------------------------------
\* C8: in every V2 flash packet the 8 header bytes are sent as they are, the
\* packet starts at an address a that is a multiple of 8, and data byte j is
\* the zero-padded image byte a + j XOR bootkey[(a + j) mod 8].
\* -------------------------------------------------------------------------

\* byte i of the image followed by zeros
Plain(i) == IF i < Len(file.data) THEN At(file.data, i) ELSE 0

C8_V2Obfuscation ==
    [][ (op = "flash_file" /\ bootloader = "V2" /\ Sends) =>
          LET a == cur_addr
              c == IF bytes_to_send >= 56 THEN 56 ELSE bytes_to_send
              n == Len(sequence') - 8
          IN /\ n >= c
             /\ SubSeq(sequence', 1, 8) =
                  << IF mode = "Write" THEN 165 ELSE 166, (c + (c % 8) + 5) % 256, 0,
                     a % 256, (a \div 256) % 256, 0, 0, bytes_to_send % 256 >>
             /\ a % 8 = 0
             /\ \A j \in 0..(n - 1) :
                  At(sequence', 8 + j) = xor8(Plain(a + j), bootkey[(a + j) % 8])
             /\ port_tx' = << 87, 171 >> \o sequence' \o << checksum8(sequence') >>
      ]_vars

\* the second packet of a 57-byte image: one image byte and one byte of
\* padding, acknowledged
C8_Witness ==
    /\ bootloader = "V2"
    /\ tx_kind = "flash_write"
    /\ op_tx = 2
    /\ cur_addr = 58
    /\ Len(sequence) = 10
    /\ acked
    /\ \E i \in 0..7 : bootkey[i] # 0

\* -------------------------------------------------------------------------
\* C9: the V2 key request is A3 30 00 and 48 random bytes; key byte i < 7 is
\* request[idx_i] XOR the sum of config-reply bytes 22..25, with idx = (27,
\* 12, 9, 39, 21, 30, 33) inside the random region 3..50; key byte 7 is chip
\* id + key byte 0 mod 256; and for a key reply of at least 5 bytes
\* chip_detect returns Ok iff reply byte 4 is the sum of the 8 key bytes, and
\* BootloaderUnknown otherwise.
\* -------------------------------------------------------------------------

KeyIndices == << 27, 12, 9, 39, 21, 30, 33 >>

C9_KeyDerivation ==
    [][ (op = "chip_detect" /\ pc = "key" /\ Sends) =>
          LET request == sequence'
              sum == (At(reply, 22) + At(reply, 23) + At(reply, 24) + At(reply, 25)) % 256
              keysum == (bootkey'[0] + bootkey'[1] + bootkey'[2] + bootkey'[3]
                         + bootkey'[4] + bootkey'[5] + bootkey'[6] + bootkey'[7]) % 256
          IN /\ Len(reply) = 30
             /\ Len(request) = 51
             /\ SubSeq(request, 1, 3) = << 163, 48, 0 >>
             /\ SubSeq(request, 4, 51) \in RandomBuffers
             /\ \A i \in 0..6 :
                  /\ KeyIndices[i + 1] \in 3..50
                  /\ bootkey'[i] = xor8(At(request, KeyIndices[i + 1]), sum)
             /\ bootkey'[7] = (chip_id + bootkey'[0]) % 256
             /\ (xres' = "Ok" /\ Len(reply') >= 5) =>
                  /\ op' = "none"
                  /\ opres' = IF At(reply', 4) = keysum THEN "Ok" ELSE "BootloaderUnknown"
      ]_vars

\* a key exchange whose reply carries the sum of the derived key
C9_Witness ==
    /\ tx_kind = "key"
    /\ op = "none"
    /\ opres = "Ok"
    /\ xres = "Ok"
    /\ Len(reply) >= 5
    /\ bootkey # ZeroKey

\* -------------------------------------------------------------------------
\* C10: under V1 with a registered chip id, erase sends the flash-erase
\* template and then, while every exchange is acknowledged, the requests A9
\* 02 00 4*i for i = 0 .. erase_blocks - 1 in this order (4*i at most 255),
\* returning Ok after exactly erase_blocks of them; a block reply whose byte
\* 0 is not 0 makes erase return ChipUnknown, and no request follows a reply
\* that was not acknowledged.
\* -------------------------------------------------------------------------

C10_V1Erase ==
    [][ (op = "erase" /\ bootloader = "V1" /\ chip_id \in DOMAIN DEFINITIONS /\ Sends) =>
          LET blocks == DEFINITIONS[chip_id].erase_blocks
              i == op_tx - 1
          IN /\ acked
             /\ op_tx = 0 => sequence' = << 166, 4, 0, 0, 0, 0 >>
             /\ op_tx >= 1 => /\ i < blocks
                              /\ 4 * i <= 255
                              /\ sequence' = << 169, 2, 0, 4 * i >>
             /\ (op_tx >= 1 /\ xres' = "Ok" /\ Len(reply') >= 1 /\ At(reply', 0) # 0) =>
                   op' = "none" /\ opres' = "ChipUnknown"
             /\ acked' => /\ call' # "halt"
                          /\ (op' = "none" <=> op_tx' = 1 + blocks)
                          /\ (op' = "none" => opres' = "Ok")
             /\ ~acked' => op' = "none"
      ]_vars

\* chip 0x52: the template and 14 block requests acknowledged, erase returned
\* Ok
C10_Witness ==
    /\ bootloader = "V1"
    /\ chip_id = 82
    /\ tx_kind = "erase_block"
    /\ sequence = << 169, 2, 0, 52 >>
    /\ op_tx = 15
    /\ acked
    /\ op = "none"
    /\ opres = "Ok"

\* -------------------------------------------------------------------------
\* C11: when an exchange of erase, chip_detect, flash_file or bootloader_exit
\* fails with SerialTimeout, PreableMismatch or ChecksumMismatch, the
\* operation has returned, with exactly that error, and sends nothing more.
\* -------------------------------------------------------------------------

\* the requests of the operations that return a result
ResultKinds == {"erase", "erase_block", "chip_detect", "config_read", "key",
                "flash_write", "flash_verify", "exit"}

C11_FirstError ==
    (tx_kind \in ResultKinds /\ xres \in ExchangeErrors) =>
       op = "none" /\ opres = xres

\* -------------------------------------------------------------------------
\* C12: with the variant Unknown, erase, bootloader_exit, chip_detect and
\* flash_file return BootloaderUnknown at once: no frame is sent and the
\* variant, the chip id, the key and the frame buffer stay as they were.
\* -------------------------------------------------------------------------

C12_UnknownVariant ==
    [][ (op \in {"erase", "bootloader_exit", "chip_detect", "flash_file"}
         /\ bootloader = "Unknown") =>
           /\ op' = "none"
           /\ call' = call
           /\ opres' = "BootloaderUnknown"
           /\ ~Sends
           /\ UNCHANGED << session, wire >>
      ]_vars

\* flash_file called with the variant Unknown has returned BootloaderUnknown,
\* nothing sent
C12_Witness ==
    /\ call = "flash_file"
    /\ bootloader = "Unknown"
    /\ op = "none"
    /\ opres = "BootloaderUnknown"
    /\ port_tx = << >>
    /\ seen = {}

\* -------------------------------------------------------------------------
\* C13: the verify flow sends only the probe (with the variant Unknown, as
\* its first request), the chip identification exchanges and Verify-mode
\* flash packets, in this order: never an erase request, a Write-mode packet
\* or the exit request; when the variant is still Unknown after the probe it
\* returns BootloaderUnknown and has sent nothing but the probe.
\* -------------------------------------------------------------------------

VerifyKinds == {"probe", "chip_detect", "config_read", "key", "flash_verify"}

C13_VerifyFlow ==
    [][ /\ (call = "verify" /\ Sends) =>
             /\ tx_kind' \in VerifyKinds
             /\ Rank(tx_kind') >= Rank(tx_kind)
             /\ (tx_kind' = "probe" => bootloader = "Unknown" /\ seen = {})
             /\ (tx_kind' # "probe" => bootloader # "Unknown")
             /\ (tx_kind' = "flash_verify" =>
                   /\ {"chip_detect", "config_read"} \subseteq seen
                   /\ At(sequence', 0) = IF bootloader = "V1" THEN 167 ELSE 166)
             /\ At(sequence', 0) \notin {168, 169}
             /\ sequence' \notin {SEQUENCES.V1.flash_erase, SEQUENCES.V1.bootloader_exit,
                                  SEQUENCES.V2.bootloader_exit}
             /\ ~(bootloader = "V2" /\ At(sequence', 0) \in {164, 165})
        /\ (call = "verify" /\ call' = "none" /\ bootloader = "Unknown") =>
             /\ result' = "BootloaderUnknown"
             /\ seen = {"probe"}
      ]_vars

\* a verify flow that probed, identified a V2 chip, exchanged the key and had
\* its Verify-mode packets acknowledged
C13_Witness ==
    /\ call = "verify"
    /\ op = "none"
    /\ opres = "Ok"
    /\ bootloader = "V2"
    /\ tx_kind = "flash_verify"
    /\ seen = VerifyKinds

\* -------------------------------------------------------------------------
\* C14: whatever the payload and whatever the device delivers, the request
\* frame written and the reply bytes stored in pkt_buffer each take at most
\* 256 bytes: a payload that would need a longer request frame is not sent,
\* and of a longer stream only the first 256 bytes are stored (the call then
\* ends in a panic, see C4).
\* -------------------------------------------------------------------------

C14_FrameBound ==
    /\ Len(port_tx) <= PACKET_MAXLEN
    /\ Len(pkt_buffer) <= PACKET_MAXLEN
    /\ tx_kind # "none" =>
         /\ Len(sequence) + 3 > PACKET_MAXLEN => port_tx = << >> /\ pkt_buffer = << >>
         /\ Len(sequence) + 3 <= PACKET_MAXLEN =>
              /\ Len(port_tx) = Len(sequence) + 3
              /\ pkt_buffer = SubSeq(stream, 1, IF Len(stream) < PACKET_MAXLEN
                                                THEN Len(stream) ELSE PACKET_MAXLEN)

\* the device delivered more than 256 bytes and 256 of them were stored
C14_Witness ==
    /\ call = "halt"
    /\ Len(stream) > PACKET_MAXLEN
    /\ Len(pkt_buffer) = PACKET_MAXLEN
    /\ Len(port_tx) > 0

\* -------------------------------------------------------------------------
\* C15: with a known variant, flash_file on an image shorter than 32 bytes,
\* in Write or Verify mode, returns FileFormatError and sends no packet.
\* -------------------------------------------------------------------------

C15_ShortImage ==
    (call = "flash_file" /\ bootloader # "Unknown" /\ file.exists
     /\ Len(file.data) < 32) =>
       /\ op = "none"
       /\ opres = "FileFormatError"
       /\ op_tx = 0
       /\ seen = {}
       /\ port_tx = << >>

\* a 31-byte image rejected in Verify mode under V2
C15_Witness ==
    /\ call = "flash_file"
    /\ bootloader = "V2"
    /\ mode = "Verify"
    /\ Len(file.data) = 31
    /\ opres = "FileFormatError"

\* -------------------------------------------------------------------------
\* C16: for every combination of flags main makes its calls in the order
\* reset, detect, erase, then at most one of the verify flow and the write
\* flow; after a detect error or an erase error it makes no further call;
\* when neither failed and --file is given, it runs the verify flow iff
\* --verify is set and --write is not, and the write flow, once and with no
\* verify flow of its own, iff --write is set.
\* -------------------------------------------------------------------------

\* the calls the flags ask for, in the order of main
Plan(a) ==
    (IF a.reset THEN << "chip_reset" >> ELSE << >>)
    \o (IF a.detect THEN << "detect" >> ELSE << >>)
    \o (IF a.erase THEN << "erase" >> ELSE << >>)
    \o (IF a.file /\ a.write THEN << "write" >>
        ELSE IF a.file /\ a.verify THEN << "verify" >>
        ELSE << >>)

IsPrefix(s, t) == Len(s) <= Len(t) /\ s = SubSeq(t, 1, Len(s))

Last(s) == s[Len(s)]

C16_MainOrder ==
    /\ [](main_pc # "off" =>
            /\ IsPrefix(ran, Plan(args))
            /\ (args.port = "absent" => ran = << >>)
            /\ (main_pc = "exit" /\ call = "none" /\ args.port # "absent") =>
                 \/ ran = Plan(args)
                 \/ ran # << >> /\ Last(ran) \in {"detect", "erase"} /\ result # "Ok")
    /\ [][ (main_pc # "off" /\ ran' # ran) =>
             /\ call = "none"
             /\ call' = Last(ran')
             /\ (ran # << >> /\ Last(ran) \in {"detect", "erase"}) => result = "Ok"
         ]_vars

\* --reset --detect --erase --file --write --verify: all four calls made,
\* the write flow last, and it returned Ok
C16_Witness ==
    /\ main_pc = "exit"
    /\ call = "none"
    /\ args.verify
    /\ ran = << "chip_reset", "detect", "erase", "write" >>
    /\ result = "Ok"

\* -------------------------------------------------------------------------
\* C17: the bootkey changes only in a V2 key exchange that succeeds: when
\* chip_detect returns an error the bootkey is what it was before the call.
\* -------------------------------------------------------------------------

C17_KeyOnSuccess ==
    [][ bootkey' # bootkey =>
          /\ op = "chip_detect"
          /\ bootloader = "V2"
          /\ tx_kind' = "key"
          /\ op' = "none"
          /\ opres' = "Ok"
      ]_vars

\* -------------------------------------------------------------------------
\* C18: under V1 the first per-block erase request is sent only after a
\* reply to the flash-erase template whose byte 0 is 0; after a valid reply
\* whose byte 0 is not 0 no per-block request is sent.
\* -------------------------------------------------------------------------

C18_TemplateAck ==
    [][ (op = "erase" /\ bootloader = "V1" /\ tx_kind = "erase" /\ Sends) =>
          /\ tx_kind' = "erase_block"
          /\ xres = "Ok"
          /\ Len(reply) >= 1 => At(reply, 0) = 0
      ]_vars

\* -------------------------------------------------------------------------
\* C19: the payload of every V1 flash packet is the mode opcode, the chunk
\* length c <= 60, the address a (low byte, high byte) and the c image bytes
\* from a on, and nothing else: its length is 4 + c.
\* -------------------------------------------------------------------------

C19_V1Payload ==
    (call = "flash_file" /\ bootloader = "V1"
     /\ tx_kind \in {"flash_write", "flash_verify"}) =>
       LET c == At(sequence, 1)
           a == At(sequence, 2) + 256 * At(sequence, 3)
       IN /\ At(sequence, 0) = IF tx_kind = "flash_write" THEN 168 ELSE 167
          /\ c <= 60
          /\ a + c <= Len(file.data)
          /\ \A j \in 0..(c - 1) : At(sequence, 4 + j) = At(file.data, a + j)
          /\ Len(sequence) = 4 + c

\* -------------------------------------------------------------------------
\* C20: in every V2 flash packet the data region after the 8 header bytes
\* is the chunk padded to an 8-byte boundary: for a chunk of c bytes (the
\* remaining bytes, at most 56) its length is the least multiple of 8 that is
\* at least c.
\* -------------------------------------------------------------------------

C20_V2Padding ==
    (call = "flash_file" /\ bootloader = "V2"
     /\ tx_kind \in {"flash_write", "flash_verify"}) =>
       LET remaining == At(sequence, 7)
           c == IF remaining >= 56 THEN 56 ELSE remaining
           n == Len(sequence) - 8
       IN /\ c >= 1
          /\ n % 8 = 0
          /\ n = 8 * Ceil(c, 8)

\* -------------------------------------------------------------------------
\* C21: after a checksum-valid reply to a flash packet, of any payload
\* length, flash_file goes on (or returns Ok) iff reply byte 0 is 0 under V1,
\* reply byte 4 is 0 or FE under V2; otherwise, a payload too short to hold
\* that byte included, it returns SerialError and sends nothing more.
\* -------------------------------------------------------------------------

\* the reply r holds the byte flash_file looks at and the byte accepts the
\* packet
FlashAccepted(r) ==
    IF bootloader = "V1"
    THEN Len(r) >= 1 /\ At(r, 0) = 0
    ELSE Len(r) >= 5 /\ At(r, 4) \in {0, 254}

C21_FlashReply ==
    [][ (op = "flash_file" /\ Sends /\ xres' = "Ok") =>
          /\ call' # "halt"
          /\ FlashAccepted(reply') => (op' = "flash_file" \/ opres' = "Ok")
          /\ ~FlashAccepted(reply') => (op' = "none" /\ opres' = "SerialError")
      ]_vars

\* -------------------------------------------------------------------------
\* C22: the chip id changes only in chip_detect, on a chip-detect reply of
\* exactly 2 bytes under V1 (byte 0 is stored) or 6 bytes under V2 (byte 4 is
\* stored); a reply of another length returns ChipUnknown, the chip id
\* unchanged, and nothing more is sent; a config-read reply that is not 2
\* bytes under V1, 30 under V2, returns BootloaderUnknown, and the key
\* request is sent only after a 30-byte config reply.
\* -------------------------------------------------------------------------

ChipReplyLen == IF bootloader = "V1" THEN 2 ELSE 6

ConfigReplyLen == IF bootloader = "V1" THEN 2 ELSE 30

C22_ChipReply ==
    [][ /\ (Sends /\ tx_kind' = "chip_detect" /\ xres' = "Ok") =>
             IF Len(reply') = ChipReplyLen
             THEN /\ chip_id' = At(reply', IF bootloader = "V1" THEN 0 ELSE 4)
                  /\ op' = "chip_detect"
             ELSE /\ chip_id' = chip_id
                  /\ op' = "none"
                  /\ opres' = "ChipUnknown"
        /\ chip_id' # chip_id =>
             /\ op = "chip_detect"
             /\ Sends
             /\ tx_kind' = "chip_detect"
             /\ xres' = "Ok"
             /\ Len(reply') = ChipReplyLen
        /\ (Sends /\ tx_kind' = "config_read") =>
             /\ tx_kind = "chip_detect"
             /\ xres = "Ok"
             /\ Len(reply) = ChipReplyLen
             /\ (xres' = "Ok" /\ Len(reply') # ConfigReplyLen) =>
                   op' = "none" /\ opres' = "BootloaderUnknown"
        /\ (Sends /\ tx_kind' = "key") =>
             /\ bootloader = "V2"
             /\ tx_kind = "config_read"
             /\ xres = "Ok"
             /\ Len(reply) = 30
      ]_vars

\* a V2 engine that got a 2-byte chip reply: ChipUnknown, the chip id still 0
C22_Witness ==
    /\ bootloader = "V2"
    /\ tx_kind = "chip_detect"
    /\ xres = "Ok"
    /\ Len(reply) = 2
    /\ op = "none"
    /\ opres = "ChipUnknown"
    /\ chip_id = 0

\* -------------------------------------------------------------------------
\* C23: with every packet acknowledged, flash_file on an image of at least
\* 32 bytes comes to an end: every packet carries at least one image byte,
\* and once all the image bytes have been sent and acknowledged the
\* operation has returned Ok.
\* -------------------------------------------------------------------------

\* the image bytes the last flash packet carries
ChunkLen ==
    IF bootloader = "V1" THEN At(sequence, 1)
    ELSE IF At(sequence, 7) >= 56 THEN 56 ELSE At(sequence, 7)

C23_FlashEnds ==
    (call = "flash_file" /\ bootloader # "Unknown" /\ file.exists
     /\ Len(file.data) >= 32 /\ acked /\ op_tx >= 1) =>
       /\ ChunkLen >= 1
       /\ cur_addr >= Len(file.data) => op = "none" /\ opres = "Ok"

\* C24: whenever a V2 flash or verify packet has been sent, a key exchange
\* had succeeded before it in the session and the packet was obfuscated
\* with the key that exchange established.
C24_FlashKey ==
    (bootloader = "V2" /\ tx_kind \in {"flash_write", "flash_verify"}) =>
       /\ session_key # NoKey
       /\ bootkey = session_key

\* C25: whenever erase performs its lookup in DEFINITIONS (at once for
\* variant V2, after an accepted template exchange for variant V1), the
\* session chip id is one of the six registered ids.
C25_RegisteredLookup ==
    [][ (op = "erase" /\ pc = "start"
         /\ (bootloader = "V2" \/ (bootloader = "V1" /\ xres' = "Ok"))) =>
           chip_id \in DOMAIN DEFINITIONS
      ]_vars

\* C26: when the write flow is rejected with FileFormatError (an image
\* shorter than 32 bytes), no erase request has been sent in that call.
C26_FormatBeforeErase ==
    (call = "write" /\ op = "none" /\ opres = "FileFormatError") =>
       /\ Len(file.data) < 32
       /\ "erase" \notin seen

====
